---- MODULE Spec2Model ----
(***************************************************************************)
(* Emission quantification engine of carbon-platform:                      *)
(*   backend/app/services/calc_service.py  (quantity resolver, gas         *)
(*   breakdown converter, activity calculator, run aggregator)             *)
(*   backend/app/main.py                   (the request handlers that      *)
(*   own the EmissionFactor, Activity and CalculationRun tables)           *)
(*   backend/app/auth/security.py          (require_roles)                 *)
(*                                                                         *)
(* Python values are modelled as follows.                                  *)
(*   None / an absent dict key   the empty tuple  None == << >>            *)
(*   a present value v           the one-element tuple  Some(v)            *)
(*   a dict with free keys       a function whose DOMAIN is the key set    *)
(*   a JSON scalar               a record [kind, n]: a number n, a string  *)
(*                               holding the digits of n, or a string      *)
(*                               that is not a number                      *)
(*   float                       an integer (sums and products are exact   *)
(*                               in the model; x / 1000.0 is kept as the   *)
(*                               fraction [num, den])                      *)
(*   raise E(...)                the result [ok |-> FALSE, exc |-> ...]    *)
(* Every result carries `calls`, the collaborators (eval_expression,       *)
(* resolve_gwp, float) invoked while producing it.                         *)
(***************************************************************************)
EXTENDS Integers, Sequences, FiniteSets, TLC

VARIABLES
    efs,          \* EmissionFactor table: key -> record
    activities,   \* Activity table: id -> record
    next_id,      \* next primary key handed out to an Activity
    runs,         \* CalculationRun table, in insertion order
    resp,         \* response of the latest request
    ef,           \* argument of a direct call: an EmissionFactor
    inputs,       \* argument of a direct call: an inputs mapping
    id_list,      \* argument of a direct call: a list of activity ids
    ret           \* None before the direct call, Some(result) after it

vars == <<efs, activities, next_id, runs, resp, ef, inputs, id_list, ret>>

(***************************** bounds **************************************)
MaxRequired == 2      \* longest `required` list drawn
MaxGases == 2         \* most entries in a `gases` mapping drawn
MaxActivities == 2    \* Activity rows of a table drawn for a direct call
MaxIds == 2           \* longest activity_ids list drawn for a direct call
MaxCreated == 2       \* Activity rows ever created by requests
MaxRuns == 1          \* CalculationRun rows ever created by requests

(*************************** Python values *********************************)
None == << >>
Some(v) == <<v>>

Num(n) == [kind |-> "num", n |-> n]
NumStr(n) == [kind |-> "numstr", n |-> n]
Text == [kind |-> "text", n |-> 0]

Return(v, calls) == [ok |-> TRUE, val |-> v, calls |-> calls]
Raise(e, calls) == [ok |-> FALSE, exc |-> e, calls |-> calls]

Exception(type, msg, field, key, aid) ==
    [type |-> type, msg |-> msg, field |-> field, ef_key |-> key, aid |-> aid]

\* float(x): numbers and numeric strings convert, other strings raise
float(x) ==
    IF x.kind \in {"num", "numstr"}
    THEN Return(x.n, <<"float">>)
    ELSE Raise(Exception("ValueError", "could not convert string to float", "", "", 0),
               <<"float">>)

(************************ app.services.formula_engine **********************)
\* An expression is a token list  operand (operator operand)*  over variable
\* names and the operators + - *, with * binding tighter.
Operators == {"+", "-", "*"}

WellFormed(expr) ==
    /\ expr # None
    /\ Len(expr[1]) % 2 = 1
    /\ \A i \in 1..Len(expr[1]) : (expr[1][i] \in Operators) <=> (i % 2 = 0)

EvaluationError(msg, name) == Exception("EvaluationError", msg, name, "", 0)

RECURSIVE eval_terms(_, _, _, _, _)
eval_terms(e, variables, i, sum, term) ==
    IF i > Len(e) THEN sum + term
    ELSE LET v == variables[e[i + 1]].n IN
         IF e[i] = "*" THEN eval_terms(e, variables, i + 2, sum, term * v)
         ELSE IF e[i] = "+" THEN eval_terms(e, variables, i + 2, sum + term, v)
         ELSE eval_terms(e, variables, i + 2, sum + term, 0 - v)

\* the variable names of a well-formed expression
names_of(e) == {e[i] : i \in {j \in 1..Len(e) : j % 2 = 1}}

eval_checked(e, variables, unbound, nonnum) ==
    IF unbound # {}
    THEN Raise(EvaluationError("unknown variable", CHOOSE n \in unbound : TRUE),
               <<"eval_expression">>)
    ELSE IF nonnum # {}
    THEN Raise(EvaluationError("not a number", CHOOSE n \in nonnum : TRUE),
               <<"eval_expression">>)
    ELSE Return(eval_terms(e, variables, 2, 0, variables[e[1]].n), <<"eval_expression">>)

eval_expression(expr, variables) ==
    IF ~WellFormed(expr)
    THEN Raise(EvaluationError("invalid expression", ""), <<"eval_expression">>)
    ELSE eval_checked(expr[1], variables,
                      {n \in names_of(expr[1]) : n \notin DOMAIN variables},
                      {n \in names_of(expr[1]) \cap DOMAIN variables :
                          variables[n].kind # "num"})

(************************ calc_service: quantity ***************************)
EmptySpec == [required |-> None, formula |-> None, quantity_field |-> None]

\* spec = ef.activity_id_fields or {}
spec_of(e) ==
    IF e.activity_id_fields = None THEN EmptySpec ELSE e.activity_id_fields[1]

\* required = spec.get("required") or []
required_of(e) ==
    IF spec_of(e).required = None THEN << >> ELSE spec_of(e).required[1]

\* truth value of a formula dict: None and {} are false
formula_truthy(formula) ==
    /\ formula # None
    /\ \/ formula[1].expression # None
       \/ formula[1].output # None
       \/ formula[1].unit # None

\* truth value of a string: None and "" are false
str_truthy(s) == s # None /\ s[1] # ""

\* for r in required: if r not in inputs: raise
RECURSIVE check_required_last(_, _, _)
check_required_last(required, inp, i) ==
    IF i > Len(required) THEN None
    ELSE LET rest == check_required_last(required, inp, i + 1) IN
         IF rest # None THEN rest
         ELSE IF required[i] \notin DOMAIN inp THEN Some(required[i])
         ELSE None

RECURSIVE check_required(_, _, _)
check_required(required, inp, i) ==
    IF i > Len(required) THEN None
    ELSE IF required[i] \notin DOMAIN inp THEN Some(required[i])
    ELSE check_required(required, inp, i + 1)

\* the chain of conditions that picks the derivation
strategy_field_first(formula, quantity_field, required, inp) ==
    IF str_truthy(quantity_field) /\ quantity_field[1] \in DOMAIN inp THEN "quantity_field"
    ELSE IF formula_truthy(formula) THEN "formula"
    ELSE IF required # << >> THEN "first_required"
    ELSE IF "amount" \in DOMAIN inp THEN "fallback_amount"
    ELSE "none"

strategy(formula, quantity_field, required, inp) ==
    IF formula_truthy(formula) THEN "formula"
    ELSE IF str_truthy(quantity_field) /\ quantity_field[1] \in DOMAIN inp THEN "quantity_field"
    ELSE IF required # << >> THEN "first_required"
    ELSE IF "amount" \in DOMAIN inp THEN "fallback_amount"
    ELSE "none"

QTrace(method, field, expression, output, unit, q) ==
    [method |-> method, field |-> field, expression |-> expression,
     output |-> output, unit |-> unit, quantity |-> q]

\* q = float(inputs[field]); return q, {"method": ..., "field": ..., "quantity": q}
field_quantity(method, field, c) ==
    IF c.ok
    THEN Return([q |-> c.val, trace |-> QTrace(method, Some(field), None, None, None, c.val)],
                c.calls)
    ELSE Raise(c.exc, c.calls)

quantity_from_field(method, field, inp) == field_quantity(method, field, float(inp[field]))

\* out = formula.get("output") or quantity_field or "quantity"
output_name(formula, quantity_field) ==
    IF str_truthy(formula.output) THEN formula.output[1]
    ELSE IF str_truthy(quantity_field) THEN quantity_field[1]
    ELSE "quantity"

\* q = eval_expression(expr, inputs); return q, {"method": "formula", ...}
formula_quantity(formula, out, r) ==
    IF r.ok
    THEN Return([q |-> r.val,
                 trace |-> QTrace("formula", None, formula.expression, Some(out),
                                  formula.unit, r.val)],
                r.calls)
    ELSE Raise(r.exc, r.calls)

quantity_from_formula(formula, quantity_field, inp) ==
    formula_quantity(formula[1], output_name(formula[1], quantity_field),
                     eval_expression(formula[1].expression, inp))

\* the body after the four assignments at the top
derive_quantity(key, required, formula, quantity_field, inp, missing, how) ==
    IF missing # None
    THEN Raise(Exception("ValueError", "Missing required input", missing[1], key, 0), << >>)
    ELSE IF how = "formula" THEN quantity_from_formula(formula, quantity_field, inp)
    ELSE IF how = "quantity_field" THEN quantity_from_field(how, quantity_field[1], inp)
    ELSE IF how = "first_required" THEN quantity_from_field(how, required[1], inp)
    ELSE IF how = "fallback_amount" THEN quantity_from_field(how, "amount", inp)
    ELSE Raise(Exception("ValueError", "No quantity derivation possible", "", "", 0), << >>)

compute_activity_quantity(e, inp) ==
    derive_quantity(e.key, required_of(e), spec_of(e).formula, spec_of(e).quantity_field, inp,
                    check_required(required_of(e), inp, 1),
                    strategy(spec_of(e).formula, spec_of(e).quantity_field,
                             required_of(e), inp))

(************************ app.services.gwp **********************************)
\* versioned tables: upper-cased gas symbol -> CO2-equivalence factor
GwpTables ==
    [AR4 |-> [CO2 |-> 1, CH4 |-> 25, N2O |-> 298],
     AR5 |-> [CO2 |-> 1, CH4 |-> 28, N2O |-> 265]]

resolve_gwp(version) ==
    IF version \in DOMAIN GwpTables
    THEN Return(GwpTables[version], <<"resolve_gwp">>)
    ELSE Raise(Exception("UnknownGwpVersionError", "unknown GWP version", version, "", 0),
               <<"resolve_gwp">>)

(************************ calc_service: gas breakdown **********************)
\* the gas symbols that occur as keys of a `gases` mapping
RawGases == {"CO2", "co2", " ch4 ", "N2O", "r410a"}

\* gas.strip().upper(), without the normalisation
no_strip_upper(gas) == gas

\* gas.strip().upper()
strip_upper(gas) ==
    CASE gas = "co2" -> "CO2"
      [] gas = " ch4 " -> "CH4"
      [] gas = "r410a" -> "R410A"
      [] OTHER -> gas

\* gb = ef.gas_breakdown or {};  gases = gb.get("gases") or {}
\* (a dict is kept as the list of its items, in insertion order)
gases_of(e) ==
    IF e.gas_breakdown = None THEN << >>
    ELSE IF e.gas_breakdown[1].gases = None THEN << >>
    ELSE e.gas_breakdown[1].gases[1]

\* for gas, val in gases.items(): if g in gwp: per_unit += float(val) * float(gwp[g])
RECURSIVE sum_gases(_, _, _, _)
sum_gases(gases, gwp, i, per_unit) ==
    IF i > Len(gases) THEN Return(per_unit, <<"resolve_gwp">>)
    ELSE LET g == strip_upper(gases[i].gas) IN
         IF g \in DOMAIN gwp
         THEN LET c == float(gases[i].val) IN
              IF c.ok
              THEN sum_gases(gases, gwp, i + 1, per_unit + c.val * gwp[g])
              ELSE Raise(c.exc, <<"resolve_gwp", "float">>)
         ELSE sum_gases(gases, gwp, i + 1, per_unit)

per_unit_with_table(gases, gwp) ==
    IF ~gwp.ok THEN Raise(gwp.exc, gwp.calls)
    ELSE sum_gases(gases, gwp.val, 1, 0)

per_unit_co2e_from_gas_breakdown(e) ==
    per_unit_with_table(gases_of(e), resolve_gwp(e.gwp_version))

(************************ calc_service: one activity ***********************)
\* db.query(EmissionFactor).filter(EmissionFactor.key == key).one_or_none()
query_ef(table, key) ==
    IF key \in DOMAIN table THEN Some(table[key]) ELSE None

\* the test `ef.value is not None`, written as a truth test
value_is_truthy(e) == e.value # None /\ e.value[1] # 0

\* ef.value is not None
value_is_set(e) == e.value # None

KgTrace(method, qty, ef_value, per_unit, qtrace, key, meta) ==
    [method |-> method, qty |-> qty, ef_value |-> ef_value, per_unit_co2e |-> per_unit,
     qtrace |-> qtrace, ef_key |-> key, meta |-> meta]

\* per_unit = _per_unit_co2e_from_gas_breakdown(ef); kg = qty * per_unit
kgco2e_from_gases(e, qr, pu) ==
    IF ~pu.ok THEN Raise(pu.exc, qr.calls \o pu.calls)
    ELSE Return([kg |-> qr.val.q * pu.val,
                 trace |-> KgTrace("gas_breakdown", qr.val.q, None, Some(pu.val),
                                   qr.val.trace, e.key, e.meta)],
                qr.calls \o pu.calls)

\* the body after qty, qtrace = compute_activity_quantity(ef, inputs)
kgco2e_from_quantity(e, qr) ==
    IF ~qr.ok THEN Raise(qr.exc, qr.calls)
    ELSE IF value_is_set(e)
    THEN Return([kg |-> qr.val.q * e.value[1],
                 trace |-> KgTrace("direct_value", qr.val.q, e.value, None,
                                   qr.val.trace, e.key, e.meta)],
                qr.calls)
    ELSE kgco2e_from_gases(e, qr, per_unit_co2e_from_gas_breakdown(e))

\* the body after the EmissionFactor query
kgco2e_with_ef(found, activity) ==
    IF found = None
    THEN Raise(Exception("ValueError", "EF not found", "", activity.ef_key, 0), << >>)
    ELSE kgco2e_from_quantity(found[1], compute_activity_quantity(found[1], activity.inputs))

compute_activity_kgco2e(table, activity) ==
    kgco2e_with_ef(query_ef(table, activity.ef_key), activity)

(************************ calc_service: a run ******************************)
\* db.query(Activity).filter(Activity.id == aid).one_or_none()
query_activity(table, aid) ==
    IF aid \in DOMAIN table THEN Some(table[aid]) ELSE None

Row(a, kg, trace) ==
    [activity_id |-> a.id, activity_name |-> a.name, ef_key |-> a.ef_key,
     inputs |-> a.inputs, kgco2e |-> kg, trace |-> trace]

\* total += kg, as `total = kg`
overwrite_total(total, kg) == kg

\* total += kg
add_to_total(total, kg) == total + kg

\* rows.append(row), inserting at the front instead
prepend_row(rows, row) == <<row>> \o rows

\* rows.append(row)
append_row(rows, row) == Append(rows, row)

\* total / 1000.0
thousandth(total) == [num |-> total, den |-> 1000]

\* the end of an iteration, where a failing calculation skips the activity
step_result_skip_failed(a, r, acc) ==
    IF ~r.ok THEN Return(acc, << >>)
    ELSE Return([total |-> add_to_total(acc.total, r.val.kg),
                 rows |-> append_row(acc.rows, Row(a, r.val.kg, r.val.trace))], << >>)

\* kg, trace = compute_activity_kgco2e(db, a); total += kg; rows.append({...})
step_result(a, r, acc) ==
    IF ~r.ok THEN Raise(r.exc, r.calls)
    ELSE Return([total |-> add_to_total(acc.total, r.val.kg),
                 rows |-> append_row(acc.rows, Row(a, r.val.kg, r.val.trace))], << >>)

\* the iteration after the Activity query, where a missing activity is skipped
step_activity_skip_missing(tE, a, aid, acc) ==
    IF a = None
    THEN Return(acc, << >>)
    ELSE step_result(a[1], compute_activity_kgco2e(tE, a[1]), acc)

\* if not a: raise ValueError(f"Activity not found: {aid}")
step_activity(tE, a, aid, acc) ==
    IF a = None
    THEN Raise(Exception("ValueError", "Activity not found", "", "", aid), << >>)
    ELSE step_result(a[1], compute_activity_kgco2e(tE, a[1]), acc)

\* one iteration of `for aid in activity_ids`
run_step(tE, tA, aid, acc) == step_activity(tE, query_activity(tA, aid), aid, acc)

RECURSIVE run_loop(_, _, _, _, _)
RECURSIVE run_next(_, _, _, _, _)

\* an exception leaves the loop, otherwise the next id is taken
run_next(tE, tA, activity_ids, i, s) ==
    IF ~s.ok THEN s
    ELSE run_loop(tE, tA, activity_ids, i + 1, s.val)

run_loop(tE, tA, activity_ids, i, acc) ==
    IF i > Len(activity_ids) THEN Return(acc, << >>)
    ELSE run_next(tE, tA, activity_ids, i, run_step(tE, tA, activity_ids[i], acc))

\* return {"run_type": ..., "total_kgco2e": ..., "total_tco2e": ..., "details": ...}
run_result(run_type, l) ==
    IF ~l.ok THEN l
    ELSE Return([run_type |-> run_type,
                 total_kgco2e |-> l.val.total,
                 total_tco2e |-> thousandth(l.val.total),
                 details |-> [rows |-> l.val.rows]], << >>)

compute_run(tE, tA, activity_ids, run_type) ==
    run_result(run_type, run_loop(tE, tA, activity_ids, 1, [total |-> 0, rows |-> << >>]))

(************************ auth/security.py *********************************)
\* get_current_user: a token that does not decode, or that names no user or
\* an inactive one, is answered 401 (the request then carries no user)
\* require_roles(*required): ADMIN passes; otherwise one required role is needed
require_roles(required, user) ==
    IF user = None THEN 401
    ELSE IF ~user[1].is_active THEN 401
    ELSE IF "ADMIN" \in user[1].roles THEN 200
    ELSE IF required \cap user[1].roles = {} THEN 403
    ELSE 200

(************************ main.py: tables and responses ********************)
EF(key, value, gas_breakdown, gwp_version, activity_id_fields, meta) ==
    [key |-> key, value |-> value, gas_breakdown |-> gas_breakdown,
     gwp_version |-> gwp_version, activity_id_fields |-> activity_id_fields,
     meta |-> meta]

Activity(id, name, ef_key, inp) ==
    [id |-> id, name |-> name, ef_key |-> ef_key, inputs |-> inp]

CalculationRun(id, result) ==
    [id |-> id, run_type |-> result.run_type, total_kgco2e |-> result.total_kgco2e,
     total_tco2e |-> result.total_tco2e, details |-> result.details]

Response(op, status, detail, request, called, result, exc) ==
    [op |-> op, status |-> status, detail |-> detail, request |-> request,
     called |-> called, result |-> result, exc |-> exc]

NoRequest == [activity_ids |-> None, run_type |-> None]
NoResponse == Response("", 0, "", NoRequest, FALSE, None, None)
Denied(op, status) == Response(op, status, "denied", NoRequest, FALSE, None, None)
Done(op, status, detail) == Response(op, status, detail, NoRequest, FALSE, None, None)

\* f with key k bound to v, and f without key k
Put(f, k, v) == [x \in DOMAIN f \cup {k} |-> IF x = k THEN v ELSE f[x]]
Drop(f, k) == [x \in DOMAIN f \ {k} |-> f[x]]

(************************ main.py: POST /api/efs ***************************)
upsert_ef(payload, user) ==
    LET auth == require_roles({"EXPERT", "ADMIN"}, user) IN
    /\ IF auth # 200
       THEN resp' = Denied("upsert_ef", auth) /\ UNCHANGED efs
       ELSE IF payload.key = ""
       THEN resp' = Done("upsert_ef", 400, "key required") /\ UNCHANGED efs
       ELSE /\ efs' = Put(efs, payload.key, payload)
            /\ resp' = Done("upsert_ef", 200, payload.key)
    /\ UNCHANGED <<activities, next_id, runs, ef, inputs, id_list, ret>>

(************************ main.py: POST /api/activities ********************)
create_activity(payload, user) ==
    LET auth == require_roles({"CALCULATOR", "EXPERT", "ADMIN"}, user) IN
    /\ next_id <= MaxCreated
    /\ IF auth # 200
       THEN resp' = Denied("create_activity", auth) /\ UNCHANGED <<activities, next_id>>
       ELSE IF payload.ef_key = ""
       THEN /\ resp' = Done("create_activity", 400, "ef_key required")
            /\ UNCHANGED <<activities, next_id>>
       ELSE /\ activities' = Put(activities, next_id,
                                 Activity(next_id, payload.name, payload.ef_key, payload.inputs))
            /\ next_id' = next_id + 1
            /\ resp' = Done("create_activity", 200, "created")
    /\ UNCHANGED <<efs, runs, ef, inputs, id_list, ret>>

(************************ main.py: DELETE /api/activities/{id} *************)
delete_activity(activity_id, user) ==
    LET auth == require_roles({"CALCULATOR", "EXPERT", "ADMIN"}, user) IN
    /\ IF auth # 200
       THEN resp' = Denied("delete_activity", auth) /\ UNCHANGED activities
       ELSE IF query_activity(activities, activity_id) = None
       THEN resp' = Done("delete_activity", 200, "ok: false") /\ UNCHANGED activities
       ELSE /\ activities' = Drop(activities, activity_id)
            /\ resp' = Done("delete_activity", 200, "ok: true")
    /\ UNCHANGED <<efs, next_id, runs, ef, inputs, id_list, ret>>

(************************ main.py: POST /api/calc/run **********************)
\* run_type = payload.get("run_type", "CFO")
run_type_of(payload) == IF payload.run_type = None THEN "CFO" ELSE payload.run_type[1]

\* activity_ids = payload.get("activity_ids") or []
ids_of(payload) == IF payload.activity_ids = None THEN << >> ELSE payload.activity_ids[1]

\* the handler after compute_run: an exception leaves it, otherwise the run
\* is added, committed and answered
run_calc_persist(rs, payload, result) ==
    IF ~result.ok
    THEN [runs |-> rs,
          resp |-> Response("run_calc", 500, "error", payload, TRUE, None, Some(result.exc))]
    ELSE [runs |-> Append(rs, CalculationRun(Len(rs) + 1, result.val)),
          resp |-> Response("run_calc", 200, "ok", payload, TRUE, Some(result.val), None)]

\* the handler body without the `if not activity_ids` rejection
run_calc_body_unchecked(tE, tA, rs, payload) ==
    run_calc_persist(rs, payload,
                     compute_run(tE, tA, ids_of(payload), run_type_of(payload)))

\* the handler body: what it leaves in the CalculationRun table and answers
run_calc_body(tE, tA, rs, payload) ==
    IF ids_of(payload) = << >>
    THEN [runs |-> rs,
          resp |-> Response("run_calc", 400, "activity_ids required", payload,
                            FALSE, None, None)]
    ELSE run_calc_persist(rs, payload,
                          compute_run(tE, tA, ids_of(payload), run_type_of(payload)))

\* db.add(r); db.commit(); return {...}
answer(out) == runs' = out.runs /\ resp' = out.resp

run_calc(payload, user) ==
    /\ Len(runs) < MaxRuns
    /\ IF require_roles({"CALCULATOR", "EXPERT", "ADMIN"}, user) # 200
       THEN /\ resp' = Denied("run_calc", require_roles({"CALCULATOR", "EXPERT", "ADMIN"}, user))
            /\ UNCHANGED runs
       ELSE answer(run_calc_body(efs, activities, runs, payload))
    /\ UNCHANGED <<efs, activities, next_id, ef, inputs, id_list, ret>>

(************************ requests drawn ***********************************)
User(roles, is_active) == [roles |-> roles, is_active |-> is_active]

Users ==
    {None, Some(User({"CALCULATOR"}, TRUE)), Some(User({"EXPERT"}, FALSE)),
     Some(User({"AUDITOR"}, TRUE)), Some(User({"ADMIN"}, TRUE))}

Dict1(k, v) == [n \in {k} |-> v]
NoInputs == [n \in {} |-> Text]

FieldSpec(required, formula, quantity_field) ==
    Some([required |-> required, formula |-> formula, quantity_field |-> quantity_field])

GasBreakdown(gases) == Some([gases |-> Some(gases)])
Entry(gas, val) == [gas |-> gas, val |-> val]

\* emission factors and activities used as payloads
DieselEF ==
    EF("diesel_litres", Some(3), None, "AR5",
       FieldSpec(Some(<<"litres">>), None, None), Some("DEFRA"))

GridEF(gwp_version) ==
    EF("electricity_grid", None,
       GasBreakdown(<<Entry("CO2", Num(2)), Entry(" ch4 ", Num(1))>>), gwp_version,
       FieldSpec(None, None, Some("kwh")), None)

Truck == [name |-> "truck", ef_key |-> "diesel_litres", inputs |-> Dict1("litres", Num(2))]
Van == [name |-> "van", ef_key |-> "diesel_litres", inputs |-> NoInputs]
Office == [name |-> "office", ef_key |-> "electricity_grid",
           inputs |-> Dict1("kwh", NumStr(5))]

\* the last payload of each set has no key
EFPayloads == {DieselEF, EF("", Some(1), None, "AR5", None, None)}

ActivityPayloads == {Truck, Van, [name |-> "", ef_key |-> "", inputs |-> NoInputs]}

Lists(S, n) == UNION {[1..k -> S] : k \in 0..n}

\* the id lists of requests: the first two ids, some never created or deleted
RequestIdLists == {<< >>, <<1>>, <<2>>, <<1, 1>>, <<1, 2>>, <<2, 1>>, <<2, 2>>}

RunPayloads ==
    {[activity_ids |-> ids, run_type |-> t] :
        ids \in {None} \cup {Some(l) : l \in RequestIdLists},
        t \in {None, Some("CFP")}}

NoEF == EF("", None, None, "AR5", None, None)
NoTable == [k \in {} |-> NoEF]

\* the tables as created at startup, before any request
EmptyDb ==
    /\ efs = NoTable
    /\ activities = [i \in {} |-> 0]
    /\ next_id = 1
    /\ runs = << >>
    /\ resp = NoResponse

\* startup() creates the tables; the EmissionFactor rows it seeds come from
\* a seed file outside these sources and enter the model as upsert_ef requests
Init ==
    /\ EmptyDb
    /\ ef = NoEF
    /\ inputs = NoInputs
    /\ id_list = << >>
    /\ ret = None

Next ==
    \/ \E p \in EFPayloads, u \in Users : upsert_ef(p, u)
    \/ \E p \in ActivityPayloads, u \in Users : create_activity(p, u)
    \/ \E i \in 1..MaxCreated, u \in Users : delete_activity(i, u)
    \/ \E p \in RunPayloads, u \in Users : run_calc(p, u)

Spec == Init /\ [][Next]_vars

(************************ values drawn for direct calls ********************)
FieldNames == {"volume", "density", "amount"}
Values == {Num(2), NumStr(3), Text}
InputDicts == UNION {[D -> Values] : D \in SUBSET FieldNames}

Formula(expression, output, unit) ==
    [expression |-> expression, output |-> output, unit |-> unit]

Formulas ==
    {None,
     Some(Formula(None, None, None)),
     Some(Formula(Some(<<"volume", "*", "density">>), Some("mass_kg"), Some("kg"))),
     Some(Formula(Some(<<"amount">>), None, None)),
     Some(Formula(Some(<<"volume", "*">>), Some("mass_kg"), None))}

QuantityFields == {None, Some(""), Some("density"), Some("amount")}

FieldSpecs ==
    {None} \cup
    {Some([required |-> r, formula |-> f, quantity_field |-> q]) :
        r \in {None} \cup {Some(l) : l \in Lists(FieldNames, MaxRequired)},
        f \in Formulas, q \in QuantityFields}

(************************ direct call: compute_activity_quantity ***********)
QuantityEFs ==
    {EF(k, Some(3), None, "AR5", s, None) : k \in {"diesel_litres", "fuel_mass"},
                                             s \in FieldSpecs}

InitQuantity ==
    /\ EmptyDb
    /\ ef \in QuantityEFs
    /\ inputs \in InputDicts
    /\ id_list = << >>
    /\ ret = None

CallQuantity ==
    /\ ret = None
    /\ ret' = Some(compute_activity_quantity(ef, inputs))
    /\ UNCHANGED <<efs, activities, next_id, runs, resp, ef, inputs, id_list>>

NextQuantity == CallQuantity

SpecQuantity == InitQuantity /\ [][NextQuantity]_vars

(************************ direct call: _per_unit_co2e_from_gas_breakdown ***)
GasValues == {Num(2), NumStr(3), Text}
GwpVersions == {"AR4", "AR5", "AR9"}

\* the items of a dict: no key twice
GasLists ==
    {l \in Lists({Entry(g, v) : g \in RawGases, v \in GasValues}, MaxGases) :
        \A i, j \in 1..Len(l) : i # j => l[i].gas # l[j].gas}

GasBreakdowns ==
    {None, Some([gases |-> None])} \cup {Some([gases |-> Some(l)]) : l \in GasLists}

GasEFs ==
    {EF("electricity_grid", None, gb, v, None, None) : gb \in GasBreakdowns,
                                                       v \in GwpVersions}

InitGas ==
    /\ EmptyDb
    /\ ef \in GasEFs
    /\ inputs = NoInputs
    /\ id_list = << >>
    /\ ret = None

CallPerUnit ==
    /\ ret = None
    /\ ret' = Some(per_unit_co2e_from_gas_breakdown(ef))
    /\ UNCHANGED <<efs, activities, next_id, runs, resp, ef, inputs, id_list>>

NextGas == CallPerUnit

SpecGas == InitGas /\ [][NextGas]_vars

(************************ direct call: compute_activity_kgco2e *************)
ActivityEFs ==
    {EF("fuel", value, gb, v, s, Some("IPCC")) :
        value \in {None, Some(0), Some(3)},
        gb \in {None, Some([gases |-> None]),
                Some([gases |-> Some(<<Entry("CO2", Num(2)), Entry(" ch4 ", NumStr(3))>>)]),
                Some([gases |-> Some(<<Entry("r410a", Text)>>)])},
        v \in {"AR5", "AR9"},
        s \in {None,
               Some([required |-> Some(<<"volume">>), formula |-> None,
                     quantity_field |-> None]),
               Some([required |-> None,
                     formula |-> Some(Formula(Some(<<"volume", "*", "density">>),
                                              Some("mass_kg"), Some("kg"))),
                     quantity_field |-> Some("amount")])}}

ActivityInputs ==
    {NoInputs,
     [n \in {"volume", "density"} |-> IF n = "volume" THEN Num(2) ELSE Num(3)],
     [n \in {"amount"} |-> NumStr(3)],
     [n \in {"volume"} |-> Text]}

InitActivity ==
    /\ \E e \in ActivityEFs : efs = [k \in {e.key} |-> e]
    /\ \E k \in {"fuel", "coal"}, inp \in ActivityInputs :
          activities = [i \in {1} |-> Activity(1, "boiler", k, inp)]
    /\ next_id = 2
    /\ runs = << >>
    /\ resp = NoResponse
    /\ ef = NoEF
    /\ inputs = NoInputs
    /\ id_list = << >>
    /\ ret = None

CallActivity ==
    /\ ret = None
    /\ ret' = Some(compute_activity_kgco2e(efs, activities[1]))
    /\ UNCHANGED <<efs, activities, next_id, runs, resp, ef, inputs, id_list>>

NextActivity == CallActivity

SpecActivity == InitActivity /\ [][NextActivity]_vars

(************************ direct call: compute_run *************************)
RunEFs ==
    {DieselEF, GridEF("AR5"), GridEF("AR9"),
     EF("fuel_mass", Some(3), None, "AR5",
        FieldSpec(Some(<<"volume">>),
                  Some(Formula(Some(<<"volume", "*", "density">>), Some("mass_kg"),
                               Some("kg"))),
                  None),
        None)}

RunActivityPayloads ==
    {Truck, Van, Office,
     [name |-> "shop", ef_key |-> "electricity_grid", inputs |-> NoInputs],
     [name |-> "boiler", ef_key |-> "fuel_mass",
      inputs |-> [n \in {"volume", "density"} |-> IF n = "volume" THEN Num(2) ELSE Num(3)]],
     [name |-> "kiln", ef_key |-> "fuel_mass", inputs |-> Dict1("volume", Num(2))]}

\* EmissionFactor tables: the key column is unique and is the row's key
EFTables ==
    UNION {{t \in [K -> RunEFs] : \A k \in K : t[k].key = k} :
              K \in SUBSET {p.key : p \in RunEFs}}

\* Activity tables: the id column is the row's id
ActivityTables ==
    UNION {{[i \in I |-> Activity(i, f[i].name, f[i].ef_key, f[i].inputs)] :
               f \in [I -> RunActivityPayloads]} :
              I \in SUBSET (1..MaxActivities)}

InitRun ==
    /\ efs \in EFTables
    /\ activities \in ActivityTables
    /\ next_id = MaxActivities + 1
    /\ runs = << >>
    /\ resp = NoResponse
    /\ ef = NoEF
    /\ inputs = NoInputs
    /\ id_list \in Lists(1..MaxActivities, MaxIds)
    /\ ret = None

CallRun ==
    /\ ret = None
    /\ ret' = Some(compute_run(efs, activities, id_list, "CFO"))
    /\ UNCHANGED <<efs, activities, next_id, runs, resp, ef, inputs, id_list>>

NextRun == CallRun

SpecRun == InitRun /\ [][NextRun]_vars

(***************************************************************************)
(* Properties of compute_activity_quantity (under SpecQuantity)            *)
(***************************************************************************)
MissingAt == {i \in 1..Len(required_of(ef)) : required_of(ef)[i] \notin DOMAIN inputs}
FirstMissingName == required_of(ef)[CHOOSE i \in MissingAt : \A j \in MissingAt : i <= j]

\* C1: when some name of spec.required is absent from inputs, the call raises
\* the missing-input error that names the first absent name in the order of
\* spec.required and the EF key, whatever formula, quantity_field or 'amount'
\* are, and eval_expression has not been called.
C1_MissingRequiredNamedFirst ==
    (ret # None /\ MissingAt # {}) =>
        /\ ~ret[1].ok
        /\ ret[1].exc.type = "ValueError"
        /\ ret[1].exc.msg = "Missing required input"
        /\ ret[1].exc.field = FirstMissingName
        /\ ret[1].exc.ef_key = ef.key
        /\ ret[1].calls = << >>

\* a call with a formula and an 'amount' input, whose first required name is
\* present and whose second is absent, has raised
C1_Witness ==
    /\ ret # None
    /\ Len(required_of(ef)) = 2
    /\ MissingAt = {2}
    /\ formula_truthy(spec_of(ef).formula)
    /\ "amount" \in DOMAIN inputs
    /\ ~ret[1].ok

Methods == <<"formula", "quantity_field", "first_required", "fallback_amount">>

Applies(m) ==
    CASE m = "formula" -> formula_truthy(spec_of(ef).formula)
      [] m = "quantity_field" -> /\ str_truthy(spec_of(ef).quantity_field)
                                 /\ spec_of(ef).quantity_field[1] \in DOMAIN inputs
      [] m = "first_required" -> required_of(ef) # << >>
      [] m = "fallback_amount" -> "amount" \in DOMAIN inputs

Applicable == {i \in 1..Len(Methods) : Applies(Methods[i])}
FirstApplicable == Methods[CHOOSE i \in Applicable : \A j \in Applicable : i <= j]

\* the input the first applicable method converts (formula aside)
SourceField ==
    CASE FirstApplicable = "quantity_field" -> spec_of(ef).quantity_field[1]
      [] FirstApplicable = "first_required" -> required_of(ef)[1]
      [] OTHER -> "amount"

\* C2: with all required names present, a returned trace records the first
\* applicable method in the order formula, quantity_field (when that name is
\* a key of inputs), first_required (when required is non-empty),
\* fallback_amount (when inputs has 'amount'); a formula is never passed over
\* for a later method; a method that reads one input returns whenever that
\* input converts to a number; and the call raises the no-quantity-derivation
\* error exactly when no method applies.
C2_FirstApplicableMethod ==
    (ret # None /\ MissingAt = {}) =>
        /\ (ret[1].ok => /\ Applicable # {}
                         /\ ret[1].val.trace.method = FirstApplicable)
        /\ (Applicable # {} /\ FirstApplicable # "formula"
                /\ inputs[SourceField].kind # "text") =>
              /\ ret[1].ok
              /\ ret[1].val.q = inputs[SourceField].n
              /\ ret[1].val.trace.field = Some(SourceField)
        /\ (Applicable # {} /\ FirstApplicable = "formula" /\ ~ret[1].ok) =>
              ret[1].exc.type = "EvaluationError"
        /\ (Applicable = {}) <=>
              (~ret[1].ok /\ ret[1].exc.msg = "No quantity derivation possible")

\* a spec with a formula and a quantity_field that is a key of inputs has
\* returned a trace
C2_Witness ==
    /\ ret # None
    /\ MissingAt = {}
    /\ {1, 2} \subseteq Applicable
    /\ ret[1].ok

(***************************************************************************)
(* Properties of _per_unit_co2e_from_gas_breakdown (under SpecGas)         *)
(***************************************************************************)
\* the table key a raw symbol stands for once trimmed and upper-cased
\* ("" when it stands for none)
TableKey(gas) ==
    CASE gas \in {"CO2", "co2"} -> "CO2"
      [] gas = " ch4 " -> "CH4"
      [] gas = "N2O" -> "N2O"
      [] OTHER -> ""

InTable == {i \in 1..Len(gases_of(ef)) : TableKey(gases_of(ef)[i].gas) # ""}

RECURSIVE WeightedSum(_)
WeightedSum(I) ==
    IF I = {} THEN 0
    ELSE LET i == CHOOSE x \in I : TRUE IN
         gases_of(ef)[i].val.n * GwpTables[ef.gwp_version][TableKey(gases_of(ef)[i].gas)]
           + WeightedSum(I \ {i})

\* C8: for a recognised GWP version and numeric quantities, per_unit_co2e is
\* the sum of quantity * factor over the entries of 'gases' whose trimmed,
\* upper-cased symbol is a key of the table; entries with another symbol
\* never raise and add nothing; an empty or absent breakdown gives 0.
C8_PerUnitIsWeightedSum ==
    (/\ ret # None
     /\ ef.gwp_version \in DOMAIN GwpTables
     /\ \A i \in InTable : gases_of(ef)[i].val.kind # "text") =>
        /\ ret[1].ok
        /\ ret[1].val = WeightedSum(InTable)
        /\ (gases_of(ef) = << >> => ret[1].val = 0)

\* a breakdown with a lower-case table gas and a gas outside the table whose
\* quantity is not even a number has been converted
C8_Witness ==
    /\ ret # None
    /\ ef.gwp_version = "AR5"
    /\ \E i, j \in 1..Len(gases_of(ef)) :
          /\ gases_of(ef)[i].gas = " ch4 "
          /\ gases_of(ef)[j].gas = "r410a"
          /\ gases_of(ef)[j].val = Text
    /\ ret[1].ok
    /\ ret[1].val > 0

(***************************************************************************)
(* Properties of compute_activity_kgco2e (under SpecActivity)              *)
(***************************************************************************)
TheActivity == activities[1]
TheEF == efs[TheActivity.ef_key]
TheQuantity == compute_activity_quantity(TheEF, TheActivity.inputs)

\* C7: an activity whose EF has a non-null value (0 included) and whose
\* quantity derives gets kgco2e = quantity * value with method
\* 'direct_value', and resolve_gwp is not called; only with a null value is
\* the method 'gas_breakdown', with kgco2e = quantity * per_unit_co2e.
C7_DirectValueFirst ==
    (ret # None /\ TheActivity.ef_key \in DOMAIN efs /\ TheQuantity.ok) =>
        /\ TheEF.value # None =>
              /\ ret[1].ok
              /\ ret[1].val.kg = TheQuantity.val.q * TheEF.value[1]
              /\ ret[1].val.trace.method = "direct_value"
              /\ ret[1].val.trace.qtrace = TheQuantity.val.trace
              /\ \A i \in 1..Len(ret[1].calls) : ret[1].calls[i] # "resolve_gwp"
        /\ (TheEF.value = None /\ ret[1].ok) =>
              /\ ret[1].val.trace.method = "gas_breakdown"
              /\ ret[1].val.trace.per_unit_co2e =
                    Some(per_unit_co2e_from_gas_breakdown(TheEF).val)
              /\ ret[1].val.kg =
                    TheQuantity.val.q * per_unit_co2e_from_gas_breakdown(TheEF).val

\* an EF with value 0, a gas breakdown and an unrecognised GWP version has
\* been used for a calculation that returned
C7_Witness ==
    /\ ret # None
    /\ TheActivity.ef_key \in DOMAIN efs
    /\ TheEF.value = Some(0)
    /\ gases_of(TheEF) # << >>
    /\ TheEF.gwp_version \notin DOMAIN GwpTables
    /\ ret[1].ok

\* C9: the calculation of an activity whose EF has neither a value nor a
\* gas_breakdown fails.
C9_NoConversionDataFails ==
    (/\ ret # None
     /\ TheActivity.ef_key \in DOMAIN efs
     /\ TheEF.value = None
     /\ TheEF.gas_breakdown = None) => ~ret[1].ok

(***************************************************************************)
(* Properties of compute_run (under SpecRun)                               *)
(***************************************************************************)
Positions == 1..Len(id_list)
Exists(i) == id_list[i] \in DOMAIN activities
Calc(i) == compute_activity_kgco2e(efs, activities[id_list[i]])
Succeeds(i) == Exists(i) /\ Calc(i).ok
Rows == ret[1].val.details.rows

\* C3: compute_run returns a RunResult exactly when every id resolves to an
\* activity whose calculation succeeds, and then with one row per id; one
\* failing calculation makes the whole call fail, it is never skipped.
C3_AllOrNothing ==
    ret # None =>
        /\ ret[1].ok <=> (\A i \in Positions : Succeeds(i))
        /\ ret[1].ok => Len(Rows) = Len(id_list)
        /\ \A i \in Positions :
              (Exists(i) /\ ~Calc(i).ok /\ \A j \in 1..(i - 1) : Succeeds(j)) =>
                  (~ret[1].ok /\ ret[1].exc = Calc(i).exc)

\* a run whose first activity calculates and whose second one fails has failed
C3_Witness ==
    /\ ret # None
    /\ Len(id_list) = 2
    /\ Succeeds(1)
    /\ Exists(2) /\ ~Calc(2).ok
    /\ ~ret[1].ok

Missing == {i \in Positions : ~Exists(i)}
FirstMissing == CHOOSE i \in Missing : \A j \in Missing : i <= j

NotFound(aid) == Exception("ValueError", "Activity not found", "", "", aid)

\* C4 as stated: whenever some id has no activity record, the call fails with
\* the activity-not-found error that names the first such id.
C4_FirstMissingAlwaysNamed ==
    (ret # None /\ Missing # {}) =>
        (~ret[1].ok /\ ret[1].exc = NotFound(id_list[FirstMissing]))

\* C4: whenever some id has no activity record the call returns no RunResult;
\* it raises the activity-not-found error naming the first such id when the
\* calculation of every activity before it succeeds, and otherwise the error
\* of the first activity before it whose calculation fails.
C4_FirstMissingNamedAfterGoodPrefix ==
    (ret # None /\ Missing # {}) =>
        /\ ~ret[1].ok
        /\ (\A j \in 1..(FirstMissing - 1) : Calc(j).ok) =>
              ret[1].exc = NotFound(id_list[FirstMissing])
        /\ \A j \in 1..(FirstMissing - 1) :
              (~Calc(j).ok /\ \A k \in 1..(j - 1) : Calc(k).ok) =>
                  ret[1].exc = Calc(j).exc

\* a run whose first activity exists and calculates and whose second id is
\* missing has raised
C4_Witness ==
    /\ ret # None
    /\ Len(id_list) = 2
    /\ Succeeds(1)
    /\ ~Exists(2)
    /\ ~ret[1].ok
    /\ ret[1].exc.aid = id_list[2]

\* C5: in a returned RunResult row i is the row of activity_ids[i]: its id,
\* name, ef_key, raw inputs, kgco2e and trace.
C5_RowsInInputOrder ==
    (ret # None /\ ret[1].ok) =>
        /\ Len(Rows) = Len(id_list)
        /\ \A i \in Positions :
              /\ Rows[i].activity_id = id_list[i]
              /\ Rows[i].activity_name = activities[id_list[i]].name
              /\ Rows[i].ef_key = activities[id_list[i]].ef_key
              /\ Rows[i].inputs = activities[id_list[i]].inputs
              /\ Rows[i].kgco2e = Calc(i).val.kg
              /\ Rows[i].trace = Calc(i).val.trace

\* a run over the ids <<2, 1>> of two activities with different emission
\* factors has returned
C5_Witness ==
    /\ ret # None
    /\ id_list = <<2, 1>>
    /\ ret[1].ok
    /\ activities[1].ef_key # activities[2].ef_key

RECURSIVE SumKg(_)
SumKg(rows) == IF rows = << >> THEN 0 ELSE rows[1].kgco2e + SumKg(Tail(rows))

\* C6: in a returned RunResult total_kgco2e is the sum of the rows' kgco2e
\* (0 without rows) and total_tco2e is total_kgco2e / 1000.
C6_TotalsAreSums ==
    (ret # None /\ ret[1].ok) =>
        /\ ret[1].val.total_kgco2e = SumKg(Rows)
        /\ (id_list = << >> => ret[1].val.total_kgco2e = 0)
        /\ ret[1].val.total_tco2e = [num |-> ret[1].val.total_kgco2e, den |-> 1000]

\* a run of two activities that both emit has returned
C6_Witness ==
    /\ ret # None
    /\ ret[1].ok
    /\ Len(Rows) = 2
    /\ Rows[1].kgco2e > 0
    /\ Rows[2].kgco2e > 0

(***************************************************************************)
(* Properties of POST /api/calc/run (under Spec)                           *)
(***************************************************************************)
EmptyIds(request) == request.activity_ids = None \/ request.activity_ids = Some(<< >>)
RunCalcAnswered == resp'.op = "run_calc" /\ resp'.status \notin {401, 403}

\* C10: a CalculationRun row is added only by a run_calc request whose
\* compute_run returned, one row per such request, holding the returned
\* run_type, totals and details; empty or absent activity_ids are answered
\* 400 without calling compute_run; a request whose compute_run raises, and
\* any other run_calc request, leaves the three tables as they were.
C10_RunPersistedOnlyOnSuccess ==
    [][/\ (RunCalcAnswered /\ EmptyIds(resp'.request)) =>
              (resp'.status = 400 /\ ~resp'.called /\ runs' = runs)
       /\ runs' # runs =>
            /\ RunCalcAnswered
            /\ resp'.status = 200
            /\ resp'.called
            /\ resp'.result =
                  Some(compute_run(efs, activities, ids_of(resp'.request),
                                   run_type_of(resp'.request)).val)
            /\ runs' = Append(runs, CalculationRun(Len(runs) + 1, resp'.result[1]))
       /\ (RunCalcAnswered /\ resp'.status = 200) => Len(runs') = Len(runs) + 1
       /\ (resp'.op = "run_calc" /\ resp'.status # 200) => runs' = runs
       /\ resp'.op = "run_calc" => (efs' = efs /\ activities' = activities)
      ]_vars

\* a run with the default run_type has been persisted with the totals and
\* details just answered
C10_Witness ==
    /\ resp.op = "run_calc"
    /\ resp.status = 200
    /\ Len(runs) = 1
    /\ runs[1].details = resp.result[1].details
    /\ runs[1].total_kgco2e > 0
    /\ runs[1].run_type = "CFO"

====
